---- MODULE Spec2Model ----
(***************************************************************************)
(* Interactive affordance layer of primula-app: the Button and Fab         *)
(* controls (src/components/ui/Button.tsx, Fab.tsx), the ripple emitter in  *)
(* its two revisions (src/lib/utils.ts and the clear-then-insert revision), *)
(* the global keyboard-shortcut listeners and the contrast subscription.    *)
(*                                                                         *)
(* Strings that the code parses (keyboardShortcut, event.key) are tuples of *)
(* one-character strings, so that toLowerCase and split('+') are computed.  *)
(***************************************************************************)
EXTENDS Integers, Sequences, FiniteSets, TLC

\* ------------------------------------------------------------------ bounds
NumControls == 2
MaxRipples == 2
MaxTicks == 3
MaxRestorers == 2

Controls == 1..NumControls
RippleIds == 1..MaxRipples

\* ------------------------------------------------------- string primitives
\* String.prototype.toLowerCase on one character (the letters the inputs use)
LowerChar(ch) ==
  CASE ch = "S" -> "s"
    [] ch = "K" -> "k"
    [] ch = "C" -> "c"
    [] ch = "T" -> "t"
    [] ch = "R" -> "r"
    [] ch = "L" -> "l"
    [] ch = "M" -> "m"
    [] ch = "D" -> "d"
    [] OTHER -> ch

ToLowerCase(str) == [i \in DOMAIN str |-> LowerChar(str[i])]

\* String.prototype.split(sep): the pieces between separators, empty pieces kept
RECURSIVE SplitFrom(_, _, _, _)
SplitFrom(str, sep, i, cur) ==
  IF i > Len(str) THEN <<cur>>
  ELSE IF str[i] = sep THEN <<cur>> \o SplitFrom(str, sep, i + 1, <<>>)
  ELSE SplitFrom(str, sep, i + 1, Append(cur, str[i]))

Split(str, sep) == SplitFrom(str, sep, 1, <<>>)

\* Array.prototype.includes
Includes(arr, x) == \E i \in DOMAIN arr : arr[i] = x

\* the value of arr[0] on an empty array
Undefined == <<"undefined">>

First(arr) == IF arr = <<>> THEN Undefined ELSE arr[1]

\* modifier tokens the handlers recognise
TokCtrl == <<"c", "t", "r", "l">>
TokControl == <<"c", "o", "n", "t", "r", "o", "l">>
TokAlt == <<"a", "l", "t">>
TokShift == <<"s", "h", "i", "f", "t">>
TokMeta == <<"m", "e", "t", "a">>
TokCmd == <<"c", "m", "d">>
TokCommand == <<"c", "o", "m", "m", "a", "n", "d">>

ModifierTokens == {TokCtrl, TokControl, TokAlt, TokShift, TokMeta, TokCmd, TokCommand}

\* Element.tagName is upper case in an HTML document; the handler lower-cases it
TagLower(tag) ==
  CASE tag = "INPUT" -> "input"
    [] tag = "TEXTAREA" -> "textarea"
    [] tag = "SELECT" -> "select"
    [] tag = "BUTTON" -> "button"
    [] tag = "BODY" -> "body"
    [] OTHER -> tag

TextEntryTags == {"input", "textarea", "select"}


IsModifierToken(k) == k \in ModifierTokens

NotModifierToken(k) == ~IsModifierToken(k)

\* ------------------------------------------------------------- input sets
KindButton == "Button"
KindFab == "Fab"

NoShortcut == <<>>
ScCtrlS == <<"c", "t", "r", "l", "+", "s">>
ScCtrlSUpper == <<"C", "t", "r", "l", "+", "S">>
ScShiftS == <<"s", "h", "i", "f", "t", "+", "s">>
ScCmdK == <<"k", "+", "c", "m", "d">>
ScSpace == <<" ">>
ScCtrlOnly == <<"c", "t", "r", "l">>

\* spellings of ctrl+shift+s, of ctrl+s and of meta+k
ScCtrlShiftS == <<"c", "t", "r", "l", "+", "s", "h", "i", "f", "t", "+", "s">>
ScShiftControlSUpper == <<"S", "h", "i", "f", "t", "+", "C", "o", "n", "t", "r", "o", "l", "+", "S">>
ScSShiftCtrl == <<"s", "+", "s", "h", "i", "f", "t", "+", "c", "t", "r", "l">>
ScControlS == <<"c", "o", "n", "t", "r", "o", "l", "+", "s">>
ScMetaK == <<"m", "e", "t", "a", "+", "k">>
ScCommandKUpper == <<"C", "o", "m", "m", "a", "n", "d", "+", "K">>

KeyS == <<"s">>
KeySUpper == <<"S">>
KeyK == <<"k">>
KeySpace == <<" ">>
KeyTab == <<"T", "a", "b">>

NoColor == ""

\* 'aria-label' not given
NoLabel == ""

\* a prop that is not given (undefined), an attribute that is not rendered
Absent == "absent"

\* the props a consumer passes beyond the ones the component destructures
NoRest ==
  [tabIndex |-> Absent, ariaDisabled |-> Absent, ariaBusy |-> Absent, ariaPressed |-> Absent,
   ariaExpanded |-> Absent, ariaKeyshortcuts |-> NoShortcut]

\* rippleDuration = 600 in the destructuring defaults, 600 in setTimeout
DefaultRippleDuration == 600

RippleDurations == {300, DefaultRippleDuration}

Instants == {300 * k : k \in 0..MaxTicks}

Horizon == 300 * MaxTicks

BodyFocus == [tag |-> "BODY", ctl |-> 0]

ButtonFocus(c) == [tag |-> "BUTTON", ctl |-> c]

FieldFocus == {[tag |-> t, ctl |-> 0] : t \in {"INPUT", "TEXTAREA", "SELECT"}}

\* manageFocus(null, ...)
NullElement == [tag |-> "null", ctl |-> 0]

\* a function manageFocus returned: () => {} for a null element (noop), else
\* the closure over previouslyFocused and restoreFocus
NoRestorer == [noop |-> TRUE, prev |-> BodyFocus, restoreFocus |-> TRUE]

\* fns: the returned functions not called yet, oldest first; base: the focus
\* when the oldest of the current nest was created; lifo: every function of
\* the nest called so far was the newest one; plain: every call of the nest had
\* an element and restoreFocus true
NoRestorers == [fns |-> <<>>, base |-> BodyFocus, lifo |-> TRUE, plain |-> TRUE]

\* Lengths and coordinates are in half pixels, so that size / 2 of a whole-pixel
\* size is exact. getBoundingClientRect() of a host and the clientX / clientY of
\* a click where the layout does not matter:
DefaultRect == [left |-> 0, top |-> 0, width |-> 4, height |-> 2]

DefaultPoint == [x |-> 2, y |-> 0]

\* the host's shape as an emitter reads it: classList.contains('rounded-full')
\* and getComputedStyle(button).borderRadius
DefaultShape == [roundedFull |-> TRUE, borderRadius |-> "9999px"]

\* clientX / clientY of the click event HTMLElement.click() synthesises
SyntheticPoint == [x |-> 0, y |-> 0]

\* ------------------------------------------------------------------ state
VARIABLES
  utilsRev,          \* which revision of src/lib/utils.ts is built in: "simple" | "clearing"
  buttonRev,         \* which revision of Button is built in: "Button.tsx" | "warning"
  nodeEnv,           \* process.env.NODE_ENV of the build
  mounted,           \* mounted[c]: the control instance is in the tree (buttonRef.current set)
  props,             \* props[c]: the props of the last render
  isHighContrast,    \* isHighContrast[c]: the useState copy of the control
  keydownListeners,  \* document's keydown listeners, in registration order
  kbdCleanup,        \* kbdCleanup[c]: the listener the pending effect cleanup removes (<<>> if none)
  contrastListeners, \* change listeners on the prefers-contrast MediaQueryList objects
  reducedMotion,     \* matchMedia('(prefers-reduced-motion: reduce)').matches
  contrastPref,      \* the environment's prefers-contrast value
  focus,             \* document.activeElement
  restorers,         \* the functions manageFocus returned that were not called yet, and their history
  ripples,           \* ripple nodes that are inside a ripple container
  timers,            \* pending setTimeout removal callbacks
  now,               \* time in ms
  last               \* what the last dispatched event did (instrumentation of the callbacks)

vars == <<utilsRev, buttonRev, nodeEnv, restorers, mounted, props, isHighContrast, keydownListeners, kbdCleanup,
          contrastListeners, reducedMotion, contrastPref, focus, ripples, timers, now, last>>

\* destructuring defaults of the component function
DefaultProps(kind) ==
  [kind |-> kind, disabled |-> FALSE, isLoading |-> FALSE, disableAnimation |-> FALSE,
   keyboardShortcut |-> NoShortcut, rippleColor |-> NoColor,
   rippleDuration |-> DefaultRippleDuration, onClick |-> FALSE, onKeyDown |-> FALSE,
   iconOnly |-> FALSE, ariaLabel |-> NoLabel,
   pressed |-> Absent, expanded |-> Absent, label |-> NoLabel, rest |-> NoRest]

\* the attributes of the rendered <button> the claims are about
NoAttributes ==
  [disabled |-> FALSE, ariaDisabled |-> Absent, ariaBusy |-> Absent, ariaPressed |-> Absent,
   ariaExpanded |-> Absent, ariaKeyshortcuts |-> NoShortcut, tabIndex |-> Absent,
   ariaLabel |-> Absent]

NullEvent ==
  [key |-> <<>>, ctrlKey |-> FALSE, altKey |-> FALSE, shiftKey |-> FALSE, metaKey |-> FALSE,
   target |-> BodyFocus]

Zero == [c \in Controls |-> 0]

\* tallies of one event dispatch
NoOutcome ==
  [op |-> "none", ev |-> NullEvent, ctl |-> 0,
   prevented |-> Zero,       \* preventDefault calls of c's shortcut listener
   triggered |-> Zero,       \* buttonRef.current.click() calls of c's shortcut listener
   spaceClicks |-> Zero,     \* buttonRef.current.click() calls of c's Space action
   spacePrevented |-> 0,     \* preventDefault calls of handleKeyboardEvent
   handled |-> Zero,         \* runs of the component's own onClick handler
   consumerClicks |-> Zero,  \* calls of the consumer's onClick
   consumerKeyDowns |-> Zero,\* calls of the consumer's onKeyDown
   inserted |-> {},          \* ids of the ripple nodes appended
   rect |-> DefaultRect,     \* getBoundingClientRect() of the host during the dispatch
   point |-> SyntheticPoint, \* clientX / clientY of the click events of the dispatch
   shape |-> DefaultShape,   \* the host's class and computed border radius during the dispatch
   emitter |-> "none",       \* the ripple function the click handler called last
   el |-> NullElement,       \* the focusElement argument of a manageFocus call
   fn |-> NoRestorer,        \* the function a manageFocus call returned, or the one called
   focusBefore |-> BodyFocus,\* document.activeElement before that call
   actions |-> {},           \* the keys of the actions argument of a handleKeyboardEvent call
   preventDefault |-> TRUE,  \* its preventDefault argument
   calls |-> <<>>,           \* the calls it made, in order
   styles |-> {},            \* the style properties set on the created nodes
   removed |-> {},           \* ids of the ripple nodes ripple.remove() took out of a container
   timerId |-> 0,            \* the timer that fired
   detached |-> 0,           \* listeners removed by effect cleanups
   warnings |-> 0,           \* console.warn calls
   attrs |-> NoAttributes,   \* the attributes of the <button> the render produced
   overflow |-> FALSE]

\* prefersHighContrast()
PrefersHighContrast == contrastPref \in {"more", "high"}

\* prefersReducedMotion()
PrefersReducedMotion == reducedMotion


\* ----------------------------------------------------------- ripple emitters
\* A dispatch threads w = [rip, tim, out]: the ripple nodes, the pending timers
\* and the tallies, through the handlers it runs.

UsedIds(w) == {r.id : r \in w.rip} \cup {t.id : t \in w.tim}

\* document.createElement('span'): a node no container and no timer refers to
FreshId(w) ==
  IF RippleIds \subseteq UsedIds(w) THEN 0
  ELSE CHOOSE i \in RippleIds \ UsedIds(w) : \A j \in RippleIds \ UsedIds(w) : i <= j

\* the ripple nodes inside the .ripple-container of control c's current element
InContainer(rip, c) == {r \in rip : r.host = c /\ r.live}

\* Math.max
Max(a, b) == IF a >= b THEN a ELSE b

\* the offset taken from the viewport's edge, not from the host's
RippleOffsetFromViewport(client, origin, size) == client - size \div 2

\* event.clientX - rect.left - size / 2 (and the same for y)
RippleOffset(client, origin, size) == client - origin - size \div 2

\* ripple.style.width / height / left / top of the node about to be appended
Place(w, size) ==
  [w EXCEPT !.out.styles =
     @ \cup {[id |-> FreshId(w), width |-> size, height |-> size,
               left |-> RippleOffset(w.out.point.x, w.out.rect.left, size),
               top |-> RippleOffset(w.out.point.y, w.out.rect.top, size),
               borderRadius |-> Absent, backgroundColor |-> Absent]}]

\* the ripple.style.borderRadius the clear-then-insert revision sets (Absent:
\* the property is not set)
RippleRadius(shape) ==
  IF shape.roundedFull \/ shape.borderRadius = "50%" THEN "50%"
  ELSE IF shape.borderRadius # "" /\ shape.borderRadius # "0px" THEN shape.borderRadius
  ELSE Absent

\* ... applied to the node about to be appended
Shape(w) ==
  [w EXCEPT !.out.styles =
     {IF st.id = FreshId(w) THEN [st EXCEPT !.borderRadius = RippleRadius(w.out.shape)] ELSE st :
        st \in @}]

\* ripple.style.backgroundColor = rippleColor, when rippleColor is given
Colour(w, color) ==
  [w EXCEPT !.out.styles =
     {IF st.id = FreshId(w) /\ color # NoColor THEN [st EXCEPT !.backgroundColor = color]
      ELSE st : st \in @}]

\* an emitter keeping one removal timer per host: scheduling the new removal
\* cancels the pending ones of the host's earlier ripples
AppendRippleSingleTimer(w, c, dur) ==
  LET id == FreshId(w) IN
  IF id = 0 \/ now + dur > Horizon
  THEN [w EXCEPT !.out.overflow = TRUE]
  ELSE [w EXCEPT
          !.rip = @ \cup {[id |-> id, host |-> c, live |-> TRUE]},
          !.tim = {t \in @ : \A r \in w.rip : r.host = c => r.id # t.id}
                    \cup {[id |-> id, due |-> now + dur]},
          !.out.inserted = @ \cup {id}]

\* appendChild(ripple) followed by setTimeout(() => ripple.remove(), dur)
AppendRipple(w, c, dur) ==
  LET id == FreshId(w) IN
  IF id = 0 \/ now + dur > Horizon
  THEN [w EXCEPT !.out.overflow = TRUE]
  ELSE [w EXCEPT
          !.rip = @ \cup {[id |-> id, host |-> c, live |-> TRUE]},
          !.tim = @ \cup {[id |-> id, due |-> now + dur]},
          !.out.inserted = @ \cup {id}]

\* existingRipples.forEach(ripple => ripple.remove())
ClearRipples(w, c) ==
  [w EXCEPT !.rip = @ \ InContainer(w.rip, c),
            !.out.removed = @ \cup {r.id : r \in InContainer(w.rip, c)}]

\* createRippleEffect of src/lib/utils.ts
CreateRippleEffectSimple(w, c) ==
  IF PrefersReducedMotion THEN w
  ELSE AppendRipple(Place(w, Max(w.out.rect.width, w.out.rect.height)), c, 600)

\* the clear-then-insert emitter with the diameter of the simple one
CreateRippleEffectClearingSingleSize(w, c) ==
  IF PrefersReducedMotion THEN w
  ELSE AppendRipple(
         Shape(Place(ClearRipples(w, c), Max(w.out.rect.width, w.out.rect.height))),
         c, 600)

\* createRippleEffect of the clear-then-insert revision
CreateRippleEffectClearing(w, c) ==
  IF PrefersReducedMotion THEN w
  ELSE AppendRipple(
         Shape(Place(ClearRipples(w, c), Max(w.out.rect.width, w.out.rect.height) * 2)),
         c, 600)

CreateRippleEffect(w, c) ==
  LET w0 == [w EXCEPT !.out.emitter = "createRippleEffect"]
  IN IF utilsRev = "clearing" THEN CreateRippleEffectClearing(w0, c)
     ELSE CreateRippleEffectSimple(w0, c)

\* handleRippleEffect with the removal delay of the utility, not rippleDuration
HandleRippleEffectFixedDelay(w, c, p) ==
  LET w0 == [w EXCEPT !.out.emitter = "handleRippleEffect"]
  IN IF p.disableAnimation \/ p.disabled \/ p.isLoading THEN w0
     ELSE AppendRipple(
            Colour(Place(w0, Max(w0.out.rect.width, w0.out.rect.height)), p.rippleColor),
            c, 600)

\* Button's handleRippleEffect
HandleRippleEffect(w, c, p) ==
  LET w0 == [w EXCEPT !.out.emitter = "handleRippleEffect"]
  IN IF p.disableAnimation \/ p.disabled \/ p.isLoading THEN w0
     ELSE AppendRipple(
            Colour(Place(w0, Max(w0.out.rect.width, w0.out.rect.height)), p.rippleColor),
            c, p.rippleDuration)

\* --------------------------------------------------------------- click path
\* props.onClick(e)
ConsumerOnClick(w, c) == [w EXCEPT !.out.consumerClicks[c] = @ + 1]

\* Button's onClick choosing its own ripple path by rippleColor alone
ButtonOnClickPathByColour(w, c, p) ==
  LET w0 == [w EXCEPT !.out.handled[c] = @ + 1]
      w1 == IF ~p.disabled /\ ~p.isLoading /\ ~p.disableAnimation
            THEN (IF p.rippleColor # NoColor
                  THEN HandleRippleEffect(w0, c, p)
                  ELSE CreateRippleEffect(w0, c))
            ELSE w0
  IN IF ~p.disabled /\ ~p.isLoading /\ p.onClick THEN ConsumerOnClick(w1, c) ELSE w1

\* Button's onClick without the disableAnimation test
ButtonOnClickNoAnimationGuard(w, c, p) ==
  LET w0 == [w EXCEPT !.out.handled[c] = @ + 1]
      w1 == IF ~p.disabled /\ ~p.isLoading
            THEN (IF p.rippleColor # NoColor \/ p.rippleDuration # 600
                  THEN HandleRippleEffect(w0, c, p)
                  ELSE CreateRippleEffect(w0, c))
            ELSE w0
  IN IF ~p.disabled /\ ~p.isLoading /\ p.onClick THEN ConsumerOnClick(w1, c) ELSE w1

\* the onClick={(e) => ...} attribute of Button
ButtonOnClick(w, c, p) ==
  LET w0 == [w EXCEPT !.out.handled[c] = @ + 1]
      w1 == IF ~p.disabled /\ ~p.isLoading /\ ~p.disableAnimation
            THEN (IF p.rippleColor # NoColor \/ p.rippleDuration # 600
                  THEN HandleRippleEffect(w0, c, p)
                  ELSE CreateRippleEffect(w0, c))
            ELSE w0
  IN IF ~p.disabled /\ ~p.isLoading /\ p.onClick THEN ConsumerOnClick(w1, c) ELSE w1

\* the onClick={(e) => ...} attribute of Fab
FabOnClick(w, c, p) ==
  LET w0 == [w EXCEPT !.out.handled[c] = @ + 1]
      w1 == IF ~p.disabled /\ ~p.disableAnimation
            THEN CreateRippleEffect(w0, c)
            ELSE w0
  IN IF ~p.disabled /\ p.onClick THEN ConsumerOnClick(w1, c) ELSE w1

\* the two handlers composed: the component's own onClick attribute, which
\* calls props.onClick itself, and then the consumer's onClick once more
ElementOnClickComposed(w, c, p) ==
  LET w1 == IF p.kind = KindButton THEN ButtonOnClick(w, c, p) ELSE FabOnClick(w, c, p)
  IN IF p.onClick THEN ConsumerOnClick(w1, c) ELSE w1

\* the onClick the element ends up with: {...props} is spread after the
\* component's onClick attribute, so a consumer's onClick replaces it
ElementOnClick(w, c, p) ==
  IF p.onClick THEN ConsumerOnClick(w, c)
  ELSE IF p.kind = KindButton THEN ButtonOnClick(w, c, p)
  ELSE FabOnClick(w, c, p)

\* the disabled attribute of the rendered <button>
ElementDisabled(p) ==
  IF p.kind = KindButton THEN p.disabled \/ p.isLoading ELSE p.disabled

\* a click event on the element (pointer, or HTMLElement.click()): a disabled
\* <button> receives none
DispatchClick(w, c) ==
  IF ~mounted[c] \/ ElementDisabled(props[c]) THEN w
  ELSE ElementOnClick(w, c, props[c])

\* ------------------------------------------------------------ key handlers
\* event.preventDefault() and actions[key]() in a trace of calls
PreventDefaultCall == [fn |-> "preventDefault", key |-> <<>>]

ActionCall(key) == [fn |-> "action", key |-> key]

\* handleKeyboardEvent looking the action up under event.key as it is
KeyboardEventCallsCaseSensitive(key, actions, preventDefault) ==
  IF key \in actions
  THEN (IF preventDefault THEN <<PreventDefaultCall>> ELSE <<>>) \o <<ActionCall(key)>>
  ELSE <<>>

\* handleKeyboardEvent(event, actions, preventDefault): the calls it makes, for
\* an actions object with the keys given
KeyboardEventCalls(key, actions, preventDefault) ==
  LET k == ToLowerCase(key)
  IN IF k \in actions
     THEN (IF preventDefault THEN <<PreventDefaultCall>> ELSE <<>>) \o <<ActionCall(k)>>
     ELSE <<>>

\* handleKeyboardEvent(e, {' ': action}) as called by handleKeyDown
HandleKeyboardEvent(w, c, p, e) ==
  IF KeyboardEventCalls(e.key, {KeySpace}, TRUE) # <<>>
  THEN LET w1 == [w EXCEPT !.out.spacePrevented = @ + 1]
           go == IF p.kind = KindButton
                 THEN ~p.disabled /\ ~p.isLoading /\ mounted[c]
                 ELSE ~p.disabled /\ mounted[c]
       IN IF go THEN DispatchClick([w1 EXCEPT !.out.spaceClicks[c] = @ + 1], c) ELSE w1
  ELSE w

\* handleKeyDown of Button and Fab
HandleKeyDown(w, c, p, e) ==
  LET w1 == IF p.onKeyDown THEN [w EXCEPT !.out.consumerKeyDowns[c] = @ + 1] ELSE w
  IN HandleKeyboardEvent(w1, c, p, e)

\* the onKeyDown the element ends up with ({...props} is spread after it)
ElementOnKeyDown(w, c, p, e) ==
  IF p.onKeyDown THEN [w EXCEPT !.out.consumerKeyDowns[c] = @ + 1]
  ELSE HandleKeyDown(w, c, p, e)

\* the split without the toLowerCase
ShortcutKeysCaseSensitive(shortcut) == Split(shortcut, "+")

\* const keys = keyboardShortcut.toLowerCase().split('+')
ShortcutKeys(shortcut) == Split(ToLowerCase(shortcut), "+")

\* the closure the shortcut effect registers
MakeListener(c, p) ==
  [owner |-> c, kind |-> p.kind, keys |-> ShortcutKeys(p.keyboardShortcut),
   disabled |-> p.disabled, isLoading |-> p.isLoading]

\* the input-field test without 'select'
TextEntryTargetNoSelect(e) == TagLower(e.target.tag) \in {"input", "textarea"}

\* ['input', 'textarea', 'select'].includes(e.target.tagName.toLowerCase())
TextEntryTarget(e) == TagLower(e.target.tag) \in TextEntryTags

\* the condition without the shiftKey comparison
ShortcutConditionNoShift(l, e) ==
  LET ctrlKey == Includes(l.keys, TokCtrl) \/ Includes(l.keys, TokControl)
      altKey == Includes(l.keys, TokAlt)
      metaKey == Includes(l.keys, TokMeta) \/ Includes(l.keys, TokCmd)
                   \/ Includes(l.keys, TokCommand)
      mainKey == First(SelectSeq(l.keys, NotModifierToken))
  IN /\ ToLowerCase(e.key) = mainKey
     /\ e.ctrlKey = ctrlKey
     /\ e.altKey = altKey
     /\ e.metaKey = metaKey
     /\ ~l.disabled
     /\ (l.kind = KindButton => ~l.isLoading)

\* the if (...) of handleGlobalKeyDown, on the values the closure captured
ShortcutCondition(l, e) ==
  LET ctrlKey == Includes(l.keys, TokCtrl) \/ Includes(l.keys, TokControl)
      altKey == Includes(l.keys, TokAlt)
      shiftKey == Includes(l.keys, TokShift)
      metaKey == Includes(l.keys, TokMeta) \/ Includes(l.keys, TokCmd)
                   \/ Includes(l.keys, TokCommand)
      mainKey == First(SelectSeq(l.keys, NotModifierToken))
  IN /\ ToLowerCase(e.key) = mainKey
     /\ e.ctrlKey = ctrlKey
     /\ e.altKey = altKey
     /\ e.shiftKey = shiftKey
     /\ e.metaKey = metaKey
     /\ ~l.disabled
     /\ (l.kind = KindButton => ~l.isLoading)

\* handleGlobalKeyDown calling buttonRef.current.click() without the ?.
HandleGlobalKeyDownUnguarded(w, l, e) ==
  IF TextEntryTarget(e) THEN w
  ELSE IF ShortcutCondition(l, e)
  THEN DispatchClick([w EXCEPT !.out.prevented[l.owner] = @ + 1,
                               !.out.triggered[l.owner] = @ + 1], l.owner)
  ELSE w

\* handleGlobalKeyDown
HandleGlobalKeyDown(w, l, e) ==
  IF TextEntryTarget(e) THEN w
  ELSE IF ShortcutCondition(l, e)
  THEN LET w1 == [w EXCEPT !.out.prevented[l.owner] = @ + 1]
       IN IF mounted[l.owner]
          THEN DispatchClick([w1 EXCEPT !.out.triggered[l.owner] = @ + 1], l.owner)
          ELSE w1
  ELSE w

\* document dispatches the event to its listeners in registration order
RECURSIVE RunListeners(_, _, _)
RunListeners(w, ls, e) ==
  IF ls = <<>> THEN w
  ELSE RunListeners(HandleGlobalKeyDown(w, Head(ls), e), Tail(ls), e)


\* ------------------------------------------------------------------ effects
\* a removeEventListener that detaches nothing
RemoveNothing(ls, l) == ls

\* removeEventListener: detaches that one registration, if it is attached
RECURSIVE RemoveListener(_, _)
RemoveListener(ls, l) ==
  IF ls = <<>> THEN <<>>
  ELSE IF Head(ls) = l THEN Tail(ls)
  ELSE <<Head(ls)>> \o RemoveListener(Tail(ls), l)

\* an effect that returns no cleanup
RunNoCleanup(ls, cleanup) == ls

\* the cleanup the shortcut effect returned (none after the early return)
RunShortcutCleanup(ls, cleanup) ==
  IF cleanup = <<>> THEN ls ELSE RemoveListener(ls, cleanup[1])

\* a dependency array that names only keyboardShortcut
ShortcutDepsOnlyShortcut(p) == <<p.keyboardShortcut>>

\* a dependency array that leaves keyboardShortcut out
ShortcutDepsWithoutShortcut(p) ==
  IF p.kind = KindButton THEN <<p.disabled, p.isLoading>> ELSE <<p.disabled>>

\* the dependency array of the shortcut effect
ShortcutDeps(p) ==
  IF p.kind = KindButton THEN <<p.keyboardShortcut, p.disabled, p.isLoading>>
  ELSE <<p.keyboardShortcut, p.disabled>>

\* if (!keyboardShortcut) return;
ShortcutEffectRegisters(p) == p.keyboardShortcut # NoShortcut

\* the body of the shortcut effect: the listeners and the cleanup after it ran
ShortcutEffectListeners(ls, c, p) ==
  IF ShortcutEffectRegisters(p) THEN Append(ls, MakeListener(c, p)) ELSE ls

ShortcutEffectCleanup(c, p) ==
  IF ShortcutEffectRegisters(p) THEN <<MakeListener(c, p)>> ELSE <<>>

\* the iconOnly effect of the Button revision that has one: the console.warn
\* calls of one run (Button.tsx and Fab have no such effect)
IconOnlyWarning(p) ==
  IF /\ buttonRev = "warning"
     /\ p.kind = KindButton
     /\ p.iconOnly /\ p.ariaLabel = NoLabel
     /\ nodeEnv # "production"
  THEN 1 ELSE 0

\* the dependency array of that effect
WarningDeps(p) == <<p.iconOnly, p.ariaLabel>>

\* the console.warn calls of a re-render from props q to props p
WarningOnUpdate(q, p) == IF WarningDeps(p) # WarningDeps(q) THEN IconOnlyWarning(p) ELSE 0

\* {...props} after the component's own attributes: what the consumer passes wins
Passed(rest, a) ==
  /\ a \in DOMAIN rest
  /\ IF a = "ariaKeyshortcuts" THEN rest[a] # NoShortcut ELSE rest[a] # Absent

SpreadRest(attrs, rest) ==
  [a \in DOMAIN attrs |-> IF Passed(rest, a) THEN rest[a] ELSE attrs[a]]

\* a string prop as an attribute: undefined renders nothing
StringAttribute(v) == IF v = NoLabel THEN Absent ELSE v

\* Button's attributes with tabIndex taken from disabled alone
ButtonAttributesTabIndexIgnoresLoading(p) ==
  SpreadRest(
    [disabled |-> p.disabled \/ p.isLoading,
     ariaDisabled |-> IF p.disabled \/ p.isLoading THEN "true" ELSE Absent,
     ariaBusy |-> IF p.isLoading THEN "true" ELSE Absent,
     ariaPressed |-> p.pressed,
     ariaExpanded |-> p.expanded,
     ariaKeyshortcuts |-> p.keyboardShortcut,
     tabIndex |-> IF p.disabled THEN "-1" ELSE "0",
     ariaLabel |-> IF p.iconOnly THEN StringAttribute(p.ariaLabel) ELSE Absent],
    p.rest)

\* the attributes of Button's <button>
ButtonAttributes(p) ==
  SpreadRest(
    [disabled |-> p.disabled \/ p.isLoading,
     ariaDisabled |-> IF p.disabled \/ p.isLoading THEN "true" ELSE Absent,
     ariaBusy |-> IF p.isLoading THEN "true" ELSE Absent,
     ariaPressed |-> p.pressed,
     ariaExpanded |-> p.expanded,
     ariaKeyshortcuts |-> p.keyboardShortcut,
     tabIndex |-> IF p.disabled \/ p.isLoading THEN "-1" ELSE "0",
     ariaLabel |-> IF p.iconOnly THEN StringAttribute(p.ariaLabel) ELSE Absent],
    p.rest)

\* an accessible name that falls back to the label only
AccessibleNameWithoutDefault(p) ==
  IF p.ariaLabel # NoLabel THEN p.ariaLabel ELSE p.label

\* const accessibleName = ariaLabel || label || 'Action button'
AccessibleName(p) ==
  IF p.ariaLabel # NoLabel THEN p.ariaLabel
  ELSE IF p.label # NoLabel THEN p.label
  ELSE "Action button"

\* the attributes of Fab's <button>
FabAttributes(p) ==
  SpreadRest(
    [disabled |-> p.disabled,
     ariaDisabled |-> IF p.disabled THEN "true" ELSE Absent,
     ariaBusy |-> Absent,
     ariaPressed |-> Absent,
     ariaExpanded |-> Absent,
     ariaKeyshortcuts |-> p.keyboardShortcut,
     tabIndex |-> Absent,
     ariaLabel |-> AccessibleName(p)],
    p.rest)

Render(p) == IF p.kind = KindButton THEN ButtonAttributes(p) ELSE FabAttributes(p)

\* focus leaves a button that is removed or becomes disabled
FocusAfter(c, gone) == IF focus.ctl = c /\ gone THEN BodyFocus ELSE focus

\* ------------------------------------------------------------------ actions
\* first render of a control and its effects
Mount(c, p) ==
  /\ ~mounted[c]
  /\ mounted' = [mounted EXCEPT ![c] = TRUE]
  /\ props' = [props EXCEPT ![c] = p]
  /\ isHighContrast' = [isHighContrast EXCEPT ![c] = PrefersHighContrast]
  /\ contrastListeners' = Append(contrastListeners, c)
  /\ keydownListeners' = ShortcutEffectListeners(keydownListeners, c, p)
  /\ kbdCleanup' = [kbdCleanup EXCEPT ![c] = ShortcutEffectCleanup(c, p)]
  /\ last' = [NoOutcome EXCEPT !.op = "mount", !.ctl = c, !.warnings = IconOnlyWarning(p),
                                !.attrs = Render(p)]
  /\ UNCHANGED <<utilsRev, buttonRev, nodeEnv, restorers, reducedMotion, contrastPref, focus, ripples, timers, now>>

\* re-render with new props; the shortcut effect re-runs when its deps changed
SetProps(c, p) ==
  /\ mounted[c]
  /\ p.kind = props[c].kind
  /\ p # props[c]
  /\ props' = [props EXCEPT ![c] = p]
  /\ IF ShortcutDeps(p) # ShortcutDeps(props[c])
     THEN /\ keydownListeners' =
               ShortcutEffectListeners(RunShortcutCleanup(keydownListeners, kbdCleanup[c]), c, p)
          /\ kbdCleanup' = [kbdCleanup EXCEPT ![c] = ShortcutEffectCleanup(c, p)]
          /\ last' = [NoOutcome EXCEPT
                        !.op = "setprops", !.ctl = c,
                        !.warnings = WarningOnUpdate(props[c], p),
                        !.attrs = Render(p),
                        !.detached = Len(keydownListeners)
                                       - Len(RunShortcutCleanup(keydownListeners, kbdCleanup[c]))]
     ELSE /\ UNCHANGED <<keydownListeners, kbdCleanup>>
          /\ last' = [NoOutcome EXCEPT !.op = "setprops", !.ctl = c,
                                      !.warnings = WarningOnUpdate(props[c], p),
                                      !.attrs = Render(p)]
  /\ focus' = FocusAfter(c, ElementDisabled(p))
  /\ UNCHANGED <<utilsRev, buttonRev, nodeEnv, restorers, mounted, isHighContrast, contrastListeners, reducedMotion,
                 contrastPref, ripples, timers, now>>

\* the control leaves the tree: both effect cleanups run, its element (with the
\* ripple nodes still inside its container) is detached
Unmount(c) ==
  /\ mounted[c]
  /\ mounted' = [mounted EXCEPT ![c] = FALSE]
  /\ props' = [props EXCEPT ![c] = DefaultProps(KindButton)]
  /\ isHighContrast' = [isHighContrast EXCEPT ![c] = FALSE]
  /\ contrastListeners' = RemoveListener(contrastListeners, c)
  /\ keydownListeners' = RunShortcutCleanup(keydownListeners, kbdCleanup[c])
  /\ kbdCleanup' = [kbdCleanup EXCEPT ![c] = <<>>]
  /\ ripples' = {IF r.host = c THEN [r EXCEPT !.live = FALSE] ELSE r : r \in ripples}
  /\ focus' = FocusAfter(c, TRUE)
  /\ last' = [NoOutcome EXCEPT
                !.op = "unmount", !.ctl = c,
                !.detached = (Len(keydownListeners) - Len(keydownListeners'))
                               + (Len(contrastListeners) - Len(contrastListeners'))]
  /\ UNCHANGED <<utilsRev, buttonRev, nodeEnv, restorers, reducedMotion, contrastPref, timers, now>>

\* the effect cleanups of control c have not run yet
CleanupPending(c) == kbdCleanup[c] # <<>> \/ Includes(contrastListeners, c)

\* the commit that takes the control out of the tree: its element is removed and
\* buttonRef.current becomes null; React runs the cleanups of useEffect later,
\* in its passive phase
UnmountCommit(c) ==
  /\ mounted[c]
  /\ mounted' = [mounted EXCEPT ![c] = FALSE]
  /\ props' = [props EXCEPT ![c] = DefaultProps(KindButton)]
  /\ isHighContrast' = [isHighContrast EXCEPT ![c] = FALSE]
  /\ ripples' = {IF r.host = c THEN [r EXCEPT !.live = FALSE] ELSE r : r \in ripples}
  /\ focus' = FocusAfter(c, TRUE)
  /\ last' = [NoOutcome EXCEPT !.op = "commit", !.ctl = c]
  /\ UNCHANGED <<utilsRev, buttonRev, nodeEnv, restorers, keydownListeners, kbdCleanup, contrastListeners, reducedMotion,
                 contrastPref, timers, now>>

\* the passive phase after that commit: both effect cleanups of the control run
FlushPassive(c) ==
  /\ ~mounted[c]
  /\ CleanupPending(c)
  /\ contrastListeners' = RemoveListener(contrastListeners, c)
  /\ keydownListeners' = RunShortcutCleanup(keydownListeners, kbdCleanup[c])
  /\ kbdCleanup' = [kbdCleanup EXCEPT ![c] = <<>>]
  /\ last' = [NoOutcome EXCEPT
                !.op = "passive", !.ctl = c,
                !.detached = (Len(keydownListeners) - Len(keydownListeners'))
                               + (Len(contrastListeners) - Len(contrastListeners'))]
  /\ UNCHANGED <<utilsRev, buttonRev, nodeEnv, restorers, mounted, props, isHighContrast, reducedMotion, contrastPref, focus,
                 ripples, timers, now>>

\* the user moves focus
SetFocus(f) ==
  /\ f # focus
  /\ f.ctl # 0 => mounted[f.ctl] /\ ~ElementDisabled(props[f.ctl])
  /\ focus' = f
  /\ last' = NoOutcome
  /\ UNCHANGED <<utilsRev, buttonRev, nodeEnv, restorers, mounted, props, isHighContrast, keydownListeners, kbdCleanup,
                 contrastListeners, reducedMotion, contrastPref, ripples, timers, now>>

\* the OS-level reduced-motion preference changes
ToggleReducedMotion ==
  /\ reducedMotion' = ~reducedMotion
  /\ last' = NoOutcome
  /\ UNCHANGED <<utilsRev, buttonRev, nodeEnv, restorers, mounted, props, isHighContrast, keydownListeners, kbdCleanup,
                 contrastListeners, contrastPref, focus, ripples, timers, now>>

\* a single subscription shared by the controls: only the first one is notified
NotifyFirstOnly(hc, ls, v) ==
  [c \in Controls |-> IF ls # <<>> /\ ls[1] = c THEN v \in {"more", "high"} ELSE hc[c]]

\* handleChange of every subscribed control: setIsHighContrast(prefersHighContrast())
NotifyContrast(hc, ls, v) ==
  [c \in Controls |-> IF Includes(ls, c) THEN v \in {"more", "high"} ELSE hc[c]]

\* the OS-level contrast preference changes
ContrastChange(v) ==
  /\ v # contrastPref
  /\ contrastPref' = v
  /\ isHighContrast' =
       IF (v \in {"more", "high"}) # PrefersHighContrast
       THEN NotifyContrast(isHighContrast, contrastListeners, v)
       ELSE isHighContrast
  /\ last' = [NoOutcome EXCEPT !.op = "contrast"]
  /\ UNCHANGED <<utilsRev, buttonRev, nodeEnv, restorers, mounted, props, keydownListeners, kbdCleanup,
                 contrastListeners, reducedMotion, focus, ripples, timers, now>>

World == [rip |-> ripples, tim |-> timers, out |-> NoOutcome]

Commit(w, op, c, e) ==
  /\ ~w.out.overflow
  /\ ripples' = w.rip
  /\ timers' = w.tim
  /\ last' = [w.out EXCEPT !.op = op, !.ctl = c, !.ev = e]

\* a pointer click at (pt.x, pt.y) on control c's element, laid out at rect with
\* the shape sh
PointerClickOn(c, rect, pt, sh) ==
  /\ mounted[c]
  /\ Commit(DispatchClick([World EXCEPT !.out.rect = rect, !.out.point = pt,
                                        !.out.shape = sh], c),
            "click", c, NullEvent)
  /\ UNCHANGED <<utilsRev, buttonRev, nodeEnv, restorers, mounted, props, isHighContrast, keydownListeners, kbdCleanup,
                 contrastListeners, reducedMotion, contrastPref, focus, now>>

\* a pointer click at (pt.x, pt.y) on control c's element, laid out at rect
PointerClickAt(c, rect, pt) == PointerClickOn(c, rect, pt, DefaultShape)

\* a pointer click on control c's element
PointerClick(c) == PointerClickAt(c, DefaultRect, DefaultPoint)

\* a keydown: React's onKeyDown of the focused control, then document's listeners
KeyDown(k, ctrl, alt, shift, meta) ==
  LET e == [key |-> k, ctrlKey |-> ctrl, altKey |-> alt, shiftKey |-> shift,
            metaKey |-> meta, target |-> focus]
      w1 == IF focus.ctl # 0
            THEN ElementOnKeyDown(World, focus.ctl, props[focus.ctl], e)
            ELSE World
  IN /\ Commit(RunListeners(w1, keydownListeners, e), "keydown", focus.ctl, e)
     /\ UNCHANGED <<utilsRev, buttonRev, nodeEnv, restorers, mounted, props, isHighContrast, keydownListeners, kbdCleanup,
                    contrastListeners, reducedMotion, contrastPref, focus, now>>

\* HTMLElement.focus() treating every element as focusable
FocusedByAlways(el) == el

\* HTMLElement.focus(): the element takes focus if it is a focusable area, i.e.
\* a field, or a control's <button> that is in the document and not disabled;
\* document.body is none
FocusedBy(el) ==
  IF el.ctl # 0 THEN (IF mounted[el.ctl] /\ ~ElementDisabled(props[el.ctl]) THEN el ELSE focus)
  ELSE IF el \in FieldFocus THEN el
  ELSE focus

\* the element `seq` without its i-th element
RemoveAt(seq, i) == [j \in 1..(Len(seq) - 1) |-> IF j < i THEN seq[j] ELSE seq[j + 1]]

\* a call manageFocus(el, restoreFocus); the caller keeps the returned function
ManageFocus(el, restoreFocus) ==
  LET fn == IF el = NullElement THEN NoRestorer
            ELSE [noop |-> FALSE, prev |-> focus, restoreFocus |-> restoreFocus]
      first == restorers.fns = <<>>
  IN /\ Len(restorers.fns) < MaxRestorers
     /\ focus' = IF el = NullElement THEN focus ELSE FocusedBy(el)
     /\ restorers' =
          [fns |-> Append(restorers.fns, fn),
           base |-> IF first THEN focus ELSE restorers.base,
           lifo |-> first \/ restorers.lifo,
           plain |-> (first \/ restorers.plain) /\ el # NullElement /\ restoreFocus]
     /\ last' = [NoOutcome EXCEPT !.op = "manageFocus", !.el = el, !.fn = fn,
                                  !.focusBefore = focus]
     /\ UNCHANGED <<utilsRev, buttonRev, nodeEnv, mounted, props, isHighContrast,
                    keydownListeners, kbdCleanup, contrastListeners, reducedMotion,
                    contrastPref, ripples, timers, now>>

\* the caller calls the i-th function manageFocus returned
Restore(i) ==
  LET fn == restorers.fns[i]
  IN /\ i \in DOMAIN restorers.fns
     /\ focus' = IF ~fn.noop /\ fn.restoreFocus THEN FocusedBy(fn.prev) ELSE focus
     /\ restorers' = [restorers EXCEPT !.fns = RemoveAt(@, i),
                                       !.lifo = @ /\ i = Len(restorers.fns)]
     /\ last' = [NoOutcome EXCEPT !.op = "restore", !.fn = fn, !.focusBefore = focus]
     /\ UNCHANGED <<utilsRev, buttonRev, nodeEnv, mounted, props, isHighContrast,
                    keydownListeners, kbdCleanup, contrastListeners, reducedMotion,
                    contrastPref, ripples, timers, now>>

\* a call handleKeyboardEvent(event, actions, preventDefault) with event.key = k
CallHandleKeyboardEvent(k, actions, preventDefault) ==
  /\ last' = [NoOutcome EXCEPT !.op = "handleKeyboardEvent",
                               !.ev = [NullEvent EXCEPT !.key = k],
                               !.actions = actions,
                               !.preventDefault = preventDefault,
                               !.calls = KeyboardEventCalls(k, actions, preventDefault)]
  /\ UNCHANGED <<utilsRev, buttonRev, nodeEnv, restorers, mounted, props, isHighContrast, keydownListeners,
                 kbdCleanup, contrastListeners, reducedMotion, contrastPref, focus, ripples,
                 timers, now>>

\* a removal that looks the node up by its class instead of keeping it: it
\* takes the oldest ripple node there is
RemoveOldestNode(rip, id) ==
  IF rip = {} THEN rip
  ELSE rip \ {CHOOSE r \in rip : \A r2 \in rip : r.id <= r2.id}

\* ripple.remove() on the node the timer's closure holds: the node leaves its
\* parent, if it has one
RemoveNode(rip, id) == {r \in rip : r.id # id}

\* a removal timer fires: ripple.remove()
TimerFire(id) ==
  /\ \E t \in timers :
       /\ t.id = id
       /\ t.due <= now
       /\ timers' = timers \ {t}
  /\ ripples' = RemoveNode(ripples, id)
  /\ last' = [NoOutcome EXCEPT !.op = "timer", !.timerId = id,
                              !.removed = {r.id : r \in {x \in ripples : x.id = id}}]
  /\ UNCHANGED <<utilsRev, buttonRev, nodeEnv, restorers, mounted, props, isHighContrast, keydownListeners, kbdCleanup,
                 contrastListeners, reducedMotion, contrastPref, focus, now>>

\* time passes, up to the next timer that is due
Advance(t) ==
  /\ t > now
  /\ \A tm \in timers : t <= tm.due
  /\ now' = t
  /\ last' = NoOutcome
  /\ UNCHANGED <<utilsRev, buttonRev, nodeEnv, restorers, mounted, props, isHighContrast, keydownListeners, kbdCleanup,
                 contrastListeners, reducedMotion, contrastPref, focus, ripples, timers>>


\* ------------------------------------------------------------ specifications
\* the revisions of Button and the values of NODE_ENV
ButtonRevs == {"Button.tsx", "warning"}

NodeEnvs == {"development", "production"}

\* the state before the first mount, whatever the build
InitState ==
  /\ utilsRev \in {"simple", "clearing"}
  /\ mounted = [c \in Controls |-> FALSE]
  /\ props = [c \in Controls |-> DefaultProps(KindButton)]
  /\ isHighContrast = [c \in Controls |-> FALSE]
  /\ keydownListeners = <<>>
  /\ kbdCleanup = [c \in Controls |-> <<>>]
  /\ contrastListeners = <<>>
  /\ reducedMotion \in BOOLEAN
  /\ contrastPref = "no-preference"
  /\ focus = BodyFocus
  /\ restorers = NoRestorers
  /\ ripples = {}
  /\ timers = {}
  /\ now = 0
  /\ last = NoOutcome

\* the Button of src/components/ui/Button.tsx in a development build
Init ==
  /\ buttonRev = "Button.tsx"
  /\ nodeEnv = "development"
  /\ InitState

\* Fab declares no isLoading, rippleColor or rippleDuration prop
PropsOver(kinds, shortcuts, anims, colors, durations, handlers) ==
  {p \in [kind : kinds, disabled : BOOLEAN, isLoading : BOOLEAN, disableAnimation : anims,
          keyboardShortcut : shortcuts, rippleColor : colors, rippleDuration : durations,
          onClick : handlers, onKeyDown : handlers, iconOnly : {FALSE}, ariaLabel : {NoLabel},
          pressed : {Absent}, expanded : {Absent}, label : {NoLabel}, rest : {NoRest}] :
     p.kind = KindFab =>
       /\ ~p.isLoading
       /\ p.rippleColor = NoColor
       /\ p.rippleDuration = DefaultRippleDuration}

\* a re-render that changes one prop
OneChanged(p, q) ==
  Cardinality({f \in DOMAIN p : p[f] # q[f]}) = 1

\* --- ripple lifetime: one host, both emitters, both Button ripple paths, time
LifeProps ==
  PropsOver({KindButton, KindFab}, {NoShortcut}, {FALSE}, {NoColor, "red"},
            RippleDurations, {FALSE})

Hosts == {1}

Next ==
  \/ \E c \in Hosts : \E p \in LifeProps : Mount(c, p)
  \/ \E c \in Hosts : \E p \in LifeProps : SetProps(c, p)
  \/ \E c \in Hosts : Unmount(c)
  \/ \E c \in Hosts : PointerClick(c)
  \/ \E id \in RippleIds : TimerFire(id)
  \/ \E t \in Instants : Advance(t)

InitLife == Init /\ ~reducedMotion

Spec == InitLife /\ [][Next]_vars

\* --- ripple guards: one host, every guard-related prop, every activation source
GuardProps ==
  {p \in PropsOver({KindButton, KindFab}, {NoShortcut, ScCtrlS}, BOOLEAN, {NoColor, "red"},
                   RippleDurations, BOOLEAN) : ~p.onKeyDown}

GuardFocus == {BodyFocus, ButtonFocus(1)}

\* activations of this specification come one per animation window
Quiet == timers = {}

NextGuard ==
  \/ \E p \in GuardProps : Mount(1, p)
  \/ \E p \in GuardProps : OneChanged(props[1], p) /\ SetProps(1, p)
  \/ Unmount(1)
  \/ \E f \in GuardFocus : SetFocus(f)
  \/ ToggleReducedMotion
  \/ Quiet /\ PointerClick(1)
  \/ Quiet /\ KeyDown(KeySpace, FALSE, FALSE, FALSE, FALSE)
  \/ Quiet /\ KeyDown(KeyS, TRUE, FALSE, FALSE, FALSE)
  \/ \E id \in RippleIds : TimerFire(id)
  \/ \E t \in Instants : Advance(t)

SpecGuard == Init /\ [][NextGuard]_vars

\* --- the shortcut dispatcher: one control, every shortcut form, key events
KeysShortcuts == {NoShortcut, ScCtrlS, ScCtrlSUpper, ScShiftS, ScCmdK, ScSpace, ScCtrlOnly}

KeysProps ==
  PropsOver({KindButton, KindFab}, KeysShortcuts, {TRUE}, {NoColor},
            {DefaultRippleDuration}, BOOLEAN)

KeysFocus == {BodyFocus, ButtonFocus(1)} \cup FieldFocus

EventKeys == {KeyS, KeySUpper, KeyK, KeySpace}

\* <<ctrlKey, altKey, shiftKey, metaKey>> of the events
EventModifiers ==
  {<<FALSE, FALSE, FALSE, FALSE>>, <<TRUE, FALSE, FALSE, FALSE>>,
   <<FALSE, TRUE, FALSE, FALSE>>, <<FALSE, FALSE, TRUE, FALSE>>,
   <<FALSE, FALSE, FALSE, TRUE>>, <<TRUE, FALSE, TRUE, FALSE>>,
   <<TRUE, TRUE, FALSE, FALSE>>, <<TRUE, FALSE, FALSE, TRUE>>}

NextKeys ==
  \/ \E p \in KeysProps : Mount(1, p)
  \/ \E p \in KeysProps : OneChanged(props[1], p) /\ SetProps(1, p)
  \/ Unmount(1)
  \/ \E f \in KeysFocus : SetFocus(f)
  \/ \E k \in EventKeys, m \in EventModifiers : KeyDown(k, m[1], m[2], m[3], m[4])

InitKeys == Init /\ utilsRev = "simple" /\ ~reducedMotion

SpecKeys == InitKeys /\ [][NextKeys]_vars

\* --- listener bookkeeping: every control, mounts, prop changes and unmounts
KindOf(c) == IF c % 2 = 1 THEN KindButton ELSE KindFab

ListenerShortcuts == {NoShortcut, ScCtrlS, ScCmdK}

ListenerProps(c) ==
  PropsOver({KindOf(c)}, ListenerShortcuts, {FALSE}, {NoColor}, {DefaultRippleDuration},
            {FALSE})

\* values of prefers-contrast the environment takes
ContrastValues == {"no-preference", "less", "more", "high"}

NextListeners ==
  \/ \E c \in Controls : \E p \in ListenerProps(c) : Mount(c, p)
  \/ \E c \in Controls : \E p \in ListenerProps(c) : SetProps(c, p)
  \/ \E c \in Controls : Unmount(c)
  \/ \E v \in ContrastValues : ContrastChange(v)

SpecListeners == InitKeys /\ [][NextListeners]_vars

\* --- ripple placement: one host, every layout and activation point, both emitters
EmitProps ==
  PropsOver({KindButton, KindFab}, {NoShortcut}, {FALSE}, {NoColor, "red"},
            {DefaultRippleDuration}, {FALSE})

EmitRects == [left : {0, 2}, top : {0, 2}, width : {2, 4}, height : {2, 4}]

\* the corners, the edge midpoints and the centre of the rectangle
EmitPoints(rect) ==
  [x : {rect.left, rect.left + rect.width \div 2, rect.left + rect.width},
   y : {rect.top, rect.top + rect.height \div 2, rect.top + rect.height}]

NextEmit ==
  \/ \E p \in EmitProps : Mount(1, p)
  \/ \E p \in EmitProps : OneChanged(props[1], p) /\ SetProps(1, p)
  \/ Unmount(1)
  \/ \E rect \in EmitRects : \E pt \in EmitPoints(rect) : Quiet /\ PointerClickAt(1, rect, pt)
  \/ \E id \in RippleIds : TimerFire(id)
  \/ \E t \in Instants : Advance(t)

SpecEmit == InitLife /\ [][NextEmit]_vars

\* --- the preference switches under a control that stays mounted
NextMotion ==
  \/ \E p \in GuardProps : Mount(1, p)
  \/ \E p \in GuardProps : OneChanged(props[1], p) /\ SetProps(1, p)
  \/ \E f \in GuardFocus : SetFocus(f)
  \/ mounted[1] /\ ToggleReducedMotion
  \/ Quiet /\ PointerClick(1)
  \/ Quiet /\ KeyDown(KeySpace, FALSE, FALSE, FALSE, FALSE)
  \/ Quiet /\ KeyDown(KeyS, TRUE, FALSE, FALSE, FALSE)
  \/ \E id \in RippleIds : TimerFire(id)
  \/ \E t \in Instants : Advance(t)

SpecMotion == InitLife /\ [][NextMotion]_vars

\* --- colliding shortcuts: every control, the same combinations, key events
SharedShortcuts == {NoShortcut, ScCtrlS, ScSpace}

SharedProps(c) ==
  {p \in PropsOver({KindOf(c)}, SharedShortcuts, {TRUE}, {NoColor}, {DefaultRippleDuration},
                   BOOLEAN) : ~p.isLoading /\ ~p.onKeyDown}

SharedFocus == {BodyFocus, [tag |-> "INPUT", ctl |-> 0]} \cup {ButtonFocus(c) : c \in Controls}

NextShared ==
  \/ \E c \in Controls : \E p \in SharedProps(c) : Mount(c, p)
  \/ \E c \in Controls : \E p \in SharedProps(c) : OneChanged(props[c], p) /\ SetProps(c, p)
  \/ \E c \in Controls : Unmount(c)
  \/ \E f \in SharedFocus : SetFocus(f)
  \/ KeyDown(KeyS, TRUE, FALSE, FALSE, FALSE)
  \/ KeyDown(KeySpace, FALSE, FALSE, FALSE, FALSE)

SpecShared == InitKeys /\ [][NextShared]_vars

\* --- a shortcut is re-bound: the control mounts with one combination, which a
\* re-render replaces by another (or by none) and never brings back
OldShortcut == ScCtrlS

NextRebind ==
  \/ \E p \in KeysProps : p.keyboardShortcut = OldShortcut /\ Mount(1, p)
  \/ \E p \in KeysProps :
       /\ OneChanged(props[1], p)
       /\ p.keyboardShortcut = OldShortcut => props[1].keyboardShortcut = OldShortcut
       /\ SetProps(1, p)
  \/ Unmount(1)
  \/ \E f \in KeysFocus : SetFocus(f)
  \/ \E k \in EventKeys, m \in EventModifiers : KeyDown(k, m[1], m[2], m[3], m[4])

SpecRebind == InitKeys /\ [][NextRebind]_vars

\* --- spellings of a shortcut: every control with one of the spellings, key events
AliasShortcuts ==
  {ScCtrlShiftS, ScShiftControlSUpper, ScSShiftCtrl,
   ScCtrlS, ScCtrlSUpper, ScControlS,
   ScMetaK, ScCmdK, ScCommandKUpper}

AliasProps(c) ==
  {p \in PropsOver({KindOf(c)}, AliasShortcuts, {TRUE}, {NoColor}, {DefaultRippleDuration},
                   {FALSE}) : ~p.disabled /\ ~p.isLoading}

NextAlias ==
  \/ \E c \in Controls : \E p \in AliasProps(c) : Mount(c, p)
  \/ \E c \in Controls : \E p \in AliasProps(c) : SetProps(c, p)
  \/ \E c \in Controls : Unmount(c)
  \/ \E k \in EventKeys, m \in EventModifiers : KeyDown(k, m[1], m[2], m[3], m[4])

SpecAlias == InitKeys /\ [][NextAlias]_vars

\* --- unmounts whose effect cleanups are deferred: a keydown can arrive between
\* the commit and the passive phase (pending cleanups run before the next mount)
DeferredProps(c) ==
  {p \in PropsOver({KindOf(c)}, ListenerShortcuts, {TRUE}, {NoColor}, {DefaultRippleDuration},
                   BOOLEAN) : ~p.onKeyDown}

NextDeferred ==
  \/ \E c \in Controls : \E p \in DeferredProps(c) : ~CleanupPending(c) /\ Mount(c, p)
  \/ \E c \in Controls : \E p \in DeferredProps(c) : OneChanged(props[c], p) /\ SetProps(c, p)
  \/ \E c \in Controls : UnmountCommit(c)
  \/ \E c \in Controls : FlushPassive(c)
  \/ KeyDown(KeyS, TRUE, FALSE, FALSE, FALSE)
  \/ KeyDown(KeyK, FALSE, FALSE, FALSE, TRUE)

SpecDeferred == InitKeys /\ [][NextDeferred]_vars

\* --- accessible names: every control, icon-only or not, named or not, in every
\* build
WarnProps(c) ==
  {[DefaultProps(KindOf(c)) EXCEPT !.iconOnly = i, !.ariaLabel = a] :
     i \in BOOLEAN, a \in {NoLabel, "Save"}}

NextWarn ==
  \/ \E c \in Controls : \E p \in WarnProps(c) : Mount(c, p)
  \/ \E c \in Controls : \E p \in WarnProps(c) : SetProps(c, p)
  \/ \E c \in Controls : Unmount(c)

InitWarn ==
  /\ buttonRev \in ButtonRevs
  /\ nodeEnv \in NodeEnvs
  /\ InitState
  /\ utilsRev = "simple"
  /\ ~reducedMotion

SpecWarn == InitWarn /\ [][NextWarn]_vars

\* --- rendering: a Button and a Fab in every configuration of the props their
\* attributes are computed from
\* no further prop, or one of the attributes passed directly
RestProps ==
  {NoRest,
   [NoRest EXCEPT !.tabIndex = "3"],
   [NoRest EXCEPT !.ariaDisabled = "false"],
   [NoRest EXCEPT !.ariaBusy = "false"],
   [NoRest EXCEPT !.ariaPressed = "mixed"],
   [NoRest EXCEPT !.ariaExpanded = "true"],
   [NoRest EXCEPT !.ariaKeyshortcuts = ScCmdK]}

RenderButtonProps ==
  {[p EXCEPT !.pressed = pr, !.expanded = ex, !.rest = r] :
     p \in PropsOver({KindButton}, {NoShortcut, ScCtrlS}, {TRUE}, {NoColor},
                     {DefaultRippleDuration}, {FALSE}),
     pr \in {Absent, "true", "false"}, ex \in {Absent, "true", "false"},
     r \in RestProps}

RenderFabProps ==
  {[p EXCEPT !.ariaLabel = a, !.label = l] :
     p \in PropsOver({KindFab}, {NoShortcut, ScCtrlS}, {TRUE}, {NoColor},
                     {DefaultRippleDuration}, {FALSE}),
     a \in {NoLabel, "Save"}, l \in {NoLabel, "Add"}}

NextRender ==
  \/ \E p \in RenderButtonProps \cup RenderFabProps : Mount(1, p)
  \/ \E p \in RenderButtonProps \cup RenderFabProps : OneChanged(props[1], p) /\ SetProps(1, p)
  \/ Unmount(1)

SpecRender == InitKeys /\ [][NextRender]_vars

\* --- ripple shape: one host of every shape, both emitters, both Button paths
\* (Fab always carries the class rounded-full, Button the class of its rounded prop)
HostShapes == [roundedFull : BOOLEAN, borderRadius : {"", "0px", "8px", "50%"}]

NextShape ==
  \/ \E p \in EmitProps : Mount(1, p)
  \/ \E p \in EmitProps : OneChanged(props[1], p) /\ SetProps(1, p)
  \/ Unmount(1)
  \/ \E sh \in HostShapes :
       /\ Quiet
       /\ props[1].kind = KindFab => sh.roundedFull
       /\ PointerClickOn(1, DefaultRect, DefaultPoint, sh)
  \/ \E id \in RippleIds : TimerFire(id)
  \/ \E t \in Instants : Advance(t)

SpecShape == InitLife /\ [][NextShape]_vars

\* --- handleKeyboardEvent on its own: every key, actions object and flag
ActionKeys == {KeyS, KeySUpper, KeySpace, KeyTab, ToLowerCase(KeyTab)}

NextKeyboard ==
  \E k \in EventKeys \cup {KeyTab}, actions \in SUBSET ActionKeys, pd \in BOOLEAN :
    CallHandleKeyboardEvent(k, actions, pd)

SpecKeyboard == InitKeys /\ [][NextKeyboard]_vars

\* --- manageFocus: a button that mounts, unmounts and gets disabled, two
\* fields, the user moving focus, nested calls restored in any order
FocusProps ==
  {p \in PropsOver({KindButton}, {NoShortcut}, {FALSE}, {NoColor}, {DefaultRippleDuration},
                   {FALSE}) : ~p.isLoading}

FocusElements ==
  {NullElement, ButtonFocus(1), [tag |-> "INPUT", ctl |-> 0], [tag |-> "TEXTAREA", ctl |-> 0]}

FocusTargets == {BodyFocus} \cup (FocusElements \ {NullElement})

NextFocus ==
  \/ \E p \in FocusProps : Mount(1, p)
  \/ \E p \in FocusProps : OneChanged(props[1], p) /\ SetProps(1, p)
  \/ Unmount(1)
  \/ \E f \in FocusTargets : SetFocus(f)
  \/ \E el \in FocusElements, rf \in BOOLEAN : ManageFocus(el, rf)
  \/ \E i \in 1..MaxRestorers : Restore(i)

SpecFocus == InitKeys /\ [][NextFocus]_vars


\* ===================================================================== claims
\* what the spec's grammar says each shortcut string of the inputs denotes
\* (key <<>>: the string names no literal key)
Combo(ctrl, alt, shift, meta, key) ==
  [ctrl |-> ctrl, alt |-> alt, shift |-> shift, meta |-> meta, key |-> key]

ExpectedCombo(sc) ==
  CASE sc = ScCtrlS -> Combo(TRUE, FALSE, FALSE, FALSE, KeyS)
    [] sc = ScCtrlSUpper -> Combo(TRUE, FALSE, FALSE, FALSE, KeyS)
    [] sc = ScShiftS -> Combo(FALSE, FALSE, TRUE, FALSE, KeyS)
    [] sc = ScCmdK -> Combo(FALSE, FALSE, FALSE, TRUE, KeyK)
    [] sc = ScSpace -> Combo(FALSE, FALSE, FALSE, FALSE, KeySpace)
    [] sc = ScCtrlOnly -> Combo(TRUE, FALSE, FALSE, FALSE, <<>>)
    [] OTHER -> Combo(FALSE, FALSE, FALSE, FALSE, <<>>)

ModifiersEqual(e, cb) ==
  /\ e.ctrlKey = cb.ctrl
  /\ e.altKey = cb.alt
  /\ e.shiftKey = cb.shift
  /\ e.metaKey = cb.meta

\* the event's key is the literal key, letter case aside
KeyEqualIgnoringCase(e, cb) ==
  \/ e.key = cb.key
  \/ e.key = KeySUpper /\ cb.key = KeyS

Eligible(p) == ~p.disabled /\ (p.kind = KindButton => ~p.isLoading)

FocusInTextEntry == focus.tag \in {"INPUT", "TEXTAREA", "SELECT"}

Activation == last.op \in {"click", "keydown"}

\* the controls into whose container the last event appended a ripple node
InsertedInto(c) == \E r \in ripples : r.id \in last.inserted /\ r.host = c /\ r.live

\* the click events the element of c handled during the last event
ClicksHandled(c) == IF props[c].onClick THEN last.consumerClicks[c] ELSE last.handled[c]

ListenersOf(c) == {i \in DOMAIN keydownListeners : keydownListeners[i].owner = c}

\* Button takes its own ripple path for this configuration
CustomPath(p) ==
  p.kind = KindButton /\ (p.rippleColor # NoColor \/ p.rippleDuration # DefaultRippleDuration)

\* C1: while the reduced-motion preference is on, a pointer click on a Button or
\* a Fab appends no ripple node, whatever the control's configuration.
C1_NoRippleUnderReducedMotion ==
  (last.op = "click" /\ reducedMotion) => last.inserted = {}

\* C2 (as stated): for a mounted, eligible control with a shortcut and a keydown
\* outside text-entry elements, the shortcut triggers iff the event's key equals
\* the literal key and the four modifier flags equal the parsed ones.
C2_TriggersIffKeyEqualsExactly ==
  (last.op = "keydown" /\ ~FocusInTextEntry) =>
    \A c \in Controls :
      (mounted[c] /\ Eligible(props[c]) /\ props[c].keyboardShortcut # NoShortcut) =>
        LET cb == ExpectedCombo(props[c].keyboardShortcut)
        IN (last.triggered[c] > 0) <=> (last.ev.key = cb.key /\ ModifiersEqual(last.ev, cb))

\* C2 (amended): the same, the event's key being compared with the literal key
\* after lower-casing it (key "S" matches the literal key "s").
C2_TriggersIffCombinationMatches ==
  (last.op = "keydown" /\ ~FocusInTextEntry) =>
    \A c \in Controls :
      (mounted[c] /\ Eligible(props[c]) /\ props[c].keyboardShortcut # NoShortcut) =>
        LET cb == ExpectedCombo(props[c].keyboardShortcut)
        IN (last.triggered[c] > 0)
             <=> (KeyEqualIgnoringCase(last.ev, cb) /\ ModifiersEqual(last.ev, cb))

C2_Witness ==
  /\ last.op = "keydown"
  /\ focus = BodyFocus
  /\ mounted[1]
  /\ Eligible(props[1])
  /\ props[1].keyboardShortcut = ScCtrlS
  /\ last.ev.key = KeySUpper
  /\ last.ev.ctrlKey /\ ~last.ev.altKey /\ ~last.ev.shiftKey /\ ~last.ev.metaKey
  /\ last.triggered[1] = 1

\* C3: no keydown dispatched while document.activeElement is a text input, a
\* textarea or a select triggers a shortcut: no preventDefault, no click.
C3_NeverTriggersInTextEntry ==
  (last.op = "keydown" /\ FocusInTextEntry) =>
    \A c \in Controls :
      /\ last.triggered[c] = 0
      /\ last.prevented[c] = 0
      /\ last.handled[c] = 0
      /\ last.consumerClicks[c] = 0

C3_Witness ==
  /\ last.op = "keydown"
  /\ focus.tag = "SELECT"
  /\ mounted[1]
  /\ Eligible(props[1])
  /\ props[1].keyboardShortcut = ScCtrlS
  /\ last.ev.key = KeyS
  /\ ModifiersEqual(last.ev, ExpectedCombo(ScCtrlS))
  /\ last.triggered[1] = 0

\* C4: whatever mounts and prop changes came before, a keydown dispatched while
\* the control is disabled (or a Button is loading) invokes no action and calls
\* no preventDefault: the listener sees the current disabled / isLoading.
C4_NoTriggerWhileIneligible ==
  last.op = "keydown" =>
    \A c \in Controls :
      (mounted[c] /\ ~Eligible(props[c])) =>
        /\ last.triggered[c] = 0
        /\ last.prevented[c] = 0
        /\ last.handled[c] = 0
        /\ last.consumerClicks[c] = 0

C4_Witness ==
  /\ last.op = "keydown"
  /\ focus = BodyFocus
  /\ mounted[1]
  /\ props[1].kind = KindButton
  /\ props[1].isLoading
  /\ ~props[1].disabled
  /\ props[1].keyboardShortcut = ScCtrlS
  /\ last.ev.key = KeyS
  /\ ModifiersEqual(last.ev, ExpectedCombo(ScCtrlS))
  /\ last.triggered[1] = 0

\* C5: a matching keydown on an eligible control, focus outside text-entry
\* elements, has preventDefault called and the control's click handled exactly
\* once (the consumer's onClick exactly once when one is given).
C5_MatchInvokesExactlyOnce ==
  (last.op = "keydown" /\ ~FocusInTextEntry) =>
    \A c \in Controls :
      LET cb == ExpectedCombo(props[c].keyboardShortcut)
      IN (/\ mounted[c]
          /\ Eligible(props[c])
          /\ props[c].keyboardShortcut # NoShortcut
          /\ KeyEqualIgnoringCase(last.ev, cb)
          /\ ModifiersEqual(last.ev, cb)) =>
           /\ last.prevented[c] = 1
           /\ ClicksHandled(c) = 1

C7_OneListenerPerShortcut ==
  \A c \in Controls :
    mounted[c] =>
      Cardinality(ListenersOf(c)) = (IF props[c].keyboardShortcut # NoShortcut THEN 1 ELSE 0)

C7_Witness ==
  /\ last.op = "setprops"
  /\ last.detached = 1
  /\ mounted[last.ctl]
  /\ props[last.ctl].keyboardShortcut = ScCmdK
  /\ Cardinality(ListenersOf(last.ctl)) = 1

\* C8: an activation (pointer click, Space key, global shortcut) appends a ripple
\* node only to a control that is not disabled, not loading and has
\* disableAnimation off.
C8_NoRippleWhenGuarded ==
  Activation =>
    \A c \in Controls :
      InsertedInto(c) =>
        /\ mounted[c]
        /\ ~props[c].disabled
        /\ ~props[c].isLoading
        /\ ~props[c].disableAnimation

C8_Witness ==
  /\ last.op = "keydown"
  /\ last.triggered[1] = 1
  /\ last.handled[1] = 1
  /\ props[1].disableAnimation
  /\ ~reducedMotion
  /\ last.inserted = {}

\* the ripple nodes of the state that are in no container after the step
Gone(r) == \A r2 \in ripples' : r2.id # r.id

New(r2) == \A r \in ripples : r.id # r2.id

OwnTimerFired(r) ==
  /\ last'.op = "timer"
  /\ last'.timerId = r.id
  /\ [id |-> r.id, due |-> now] \in timers

ExpectedDelay(p) == IF CustomPath(p) THEN p.rippleDuration ELSE 600

\* every ripple node in a container has its timer pending, not yet overdue
TimerPending == \A r \in ripples : \E t \in timers : t.id = r.id /\ t.due >= now

\* an appended node's timer is due after 600 ms, or after rippleDuration on
\* Button's own path
ScheduledFor(r2) ==
  [id |-> r2.id, due |-> now + ExpectedDelay(props[r2.host])] \in timers'

\* C9 (as stated): a ripple node leaves its container only when its own removal
\* timer fires; nothing else, a later activation included, removes it.
C9_RemovedOnlyByOwnTimer ==
  [][\A r \in ripples : Gone(r) => OwnTimerFired(r)]_vars

\* C9 (amended): a ripple node leaves its container when its own timer fires,
\* 600 ms (rippleDuration on Button's own path) after it was appended, or
\* earlier when the clear-then-insert emitter runs for a later activation on
\* the same host; nothing else removes it and it never outlives its timer.
C9_RemovedByOwnTimerOrCleared ==
  [][/\ \A r \in ripples :
          Gone(r) =>
            \/ OwnTimerFired(r)
            \/ /\ utilsRev = "clearing"
               /\ last'.op \in {"click", "keydown"}
               /\ r.live
               /\ ~CustomPath(props[r.host])
               /\ \E r2 \in ripples' : New(r2) /\ r2.host = r.host
     /\ \A r2 \in ripples' : New(r2) => ScheduledFor(r2)
     /\ TimerPending']_vars

C9_Witness ==
  /\ last.op = "timer"
  /\ last.removed # {}
  /\ now = 300
  /\ ripples # {}

\* C10: with the clear-then-insert emitter the ripple container of a host never
\* holds more than one ripple node.
C10_AtMostOneRipple ==
  utilsRev = "clearing" =>
    \A c \in Controls : Cardinality(InContainer(ripples, c)) <= 1

\* the frame a ripple node's left / top are offsets in: the bounds of its host
\* (the style sheet that positions .ripple-effect is not among the sources)
FrameOrigin(rect) == [x |-> rect.left, y |-> rect.top]

Inside(pt, rect) ==
  /\ rect.left <= pt.x /\ pt.x <= rect.left + rect.width
  /\ rect.top <= pt.y /\ pt.y <= rect.top + rect.height

\* the centre of a node with style st, in viewport coordinates
NodeCentre(st, rect) ==
  [x |-> FrameOrigin(rect).x + st.left + st.width \div 2,
   y |-> FrameOrigin(rect).y + st.top + st.height \div 2]

\* the component's own onClick ran for the click and its guards let the emitter run
EmitterRan(c) ==
  /\ last.op = "click"
  /\ last.ctl = c
  /\ last.handled[c] = 1
  /\ ~props[c].disabled /\ ~props[c].isLoading /\ ~props[c].disableAnimation

C12_RippleFollowsCurrentPreference ==
  Activation =>
    \A c \in Controls :
      (/\ mounted[c]
       /\ last.handled[c] >= 1
       /\ ~props[c].disabled /\ ~props[c].isLoading /\ ~props[c].disableAnimation) =>
        (InsertedInto(c) <=> ~reducedMotion)

ContrastSubscriptions(c) == {i \in DOMAIN contrastListeners : contrastListeners[i] = c}

\* C13: after every step each mounted control's isHighContrast equals the
\* environment's current value (it is seeded at mount and refreshed by every
\* change notification) and the control holds exactly one subscription; a
\* mount, re-render or unmount of one control leaves every other control's
\* copy and subscription as they were.
C13_ContrastCopiesFollowEnvironment ==
  [][/\ \A c \in Controls :
          mounted'[c] =>
            /\ isHighContrast'[c] = PrefersHighContrast'
            /\ Cardinality(ContrastSubscriptions(c)') = 1
     /\ \A c \in Controls :
          (last'.op \in {"mount", "setprops", "unmount"} /\ last'.ctl = c) =>
            \A d \in Controls \ {c} :
              /\ isHighContrast'[d] = isHighContrast[d]
              /\ Includes(contrastListeners', d) <=> Includes(contrastListeners, d)]_vars

C13_Witness ==
  /\ last.op = "contrast"
  /\ contrastPref = "more"
  /\ \A c \in Controls : mounted[c] /\ isHighContrast[c]

\* the keydown of the state matches the shortcut of the mounted, eligible control c
Matching(c) ==
  LET cb == ExpectedCombo(props[c].keyboardShortcut)
  IN /\ mounted[c]
     /\ Eligible(props[c])
     /\ props[c].keyboardShortcut # NoShortcut
     /\ KeyEqualIgnoringCase(last.ev, cb)
     /\ ModifiersEqual(last.ev, cb)

\* C14: when two or more mounted, eligible controls have the same shortcut, a
\* matching keydown (focus outside text-entry elements) triggers each of them
\* and has each one's click handled exactly once; an unmount of one control
\* leaves the registrations of the others as they were.
C14_CollidingShortcutsAllFireOnce ==
  [][/\ (last'.op = "keydown" /\ ~FocusInTextEntry') =>
          \A c \in Controls : \A d \in Controls \ {c} :
            (/\ Matching(c)' /\ Matching(d)'
             /\ props'[c].keyboardShortcut = props'[d].keyboardShortcut) =>
              /\ last'.triggered[c] = 1
              /\ ClicksHandled(c)' = 1
     /\ \A c \in Controls :
          (last'.op = "unmount" /\ last'.ctl = c) =>
            \A d \in Controls \ {c} :
              {keydownListeners'[i] : i \in ListenersOf(d)'}
                = {keydownListeners[i] : i \in ListenersOf(d)}]_vars

\* the keydown of the state matches the combination the shortcut string sc denotes
EventMatches(sc) ==
  /\ KeyEqualIgnoringCase(last.ev, ExpectedCombo(sc))
  /\ ModifiersEqual(last.ev, ExpectedCombo(sc))

\* the control's keyboardShortcut was changed after its mount
Rebound(c) == mounted[c] /\ props[c].keyboardShortcut # OldShortcut

\* C15: once a mounted control's keyboardShortcut has changed from A to B, a
\* keydown that matches A and not B triggers nothing (no preventDefault, no
\* click), a keydown that matches B triggers the eligible control once (focus
\* outside text-entry elements), and after a change to the empty shortcut no
\* keydown triggers the control.
C15_ReboundShortcutReplacesOld ==
  last.op = "keydown" =>
    \A c \in Controls :
      Rebound(c) =>
        /\ (EventMatches(OldShortcut) /\ ~EventMatches(props[c].keyboardShortcut)) =>
             (last.triggered[c] = 0 /\ last.prevented[c] = 0)
        /\ (/\ props[c].keyboardShortcut # NoShortcut
            /\ EventMatches(props[c].keyboardShortcut)
            /\ Eligible(props[c])
            /\ ~FocusInTextEntry) => last.triggered[c] = 1
        /\ props[c].keyboardShortcut = NoShortcut =>
             (last.triggered[c] = 0 /\ last.prevented[c] = 0 /\ ListenersOf(c) = {})

C15_Witness ==
  /\ last.op = "keydown"
  /\ focus = BodyFocus
  /\ Rebound(1)
  /\ Eligible(props[1])
  /\ props[1].keyboardShortcut = ScCmdK
  /\ EventMatches(ScCmdK)
  /\ last.triggered[1] = 1
  /\ Cardinality(ListenersOf(1)) = 1

\* the timer that fired in the step belongs to a node that was no longer in the
\* container of a mounted host: its host was unmounted, or the node was removed
LateTimer == last'.op = "timer" /\ ~\E r \in ripples : r.id = last'.timerId /\ r.live

\* C16: a removal timer that fires after its host was unmounted, or after its
\* node was already detached, completes and changes nothing of a mounted
\* control: every ripple container, the props, the listeners and the focus stay
\* as they were, and only that timer is gone.
C16_LateTimerIsNoOp ==
  [][LateTimer =>
       /\ \A c \in Controls : InContainer(ripples', c) = InContainer(ripples, c)
       /\ timers' = {t \in timers : t.id # last'.timerId}
       /\ UNCHANGED <<mounted, props, isHighContrast, keydownListeners, contrastListeners,
                      focus>>]_vars

C16_Witness ==
  /\ last.op = "timer"
  /\ last.removed = {}
  /\ mounted[1]
  /\ InContainer(ripples, 1) # {}

Canonical(sc) ==
  CASE sc \in {ScCtrlShiftS, ScShiftControlSUpper, ScSShiftCtrl} -> ScCtrlShiftS
    [] sc \in {ScCtrlS, ScCtrlSUpper, ScControlS} -> ScCtrlS
    [] sc \in {ScMetaK, ScCmdK, ScCommandKUpper} -> ScMetaK
    [] OTHER -> sc

\* C18: two mounted, enabled controls whose shortcut strings differ only in
\* letter case, in the order of the tokens and in the alias of a modifier
\* (ctrl / control, meta / cmd / command) are triggered by exactly the same
\* keydown events.
C18_SpellingsTriggerAlike ==
  last.op = "keydown" =>
    \A c \in Controls : \A d \in Controls :
      (/\ mounted[c] /\ mounted[d]
       /\ props[c].keyboardShortcut # NoShortcut
       /\ Canonical(props[c].keyboardShortcut) = Canonical(props[d].keyboardShortcut)) =>
        /\ last.triggered[c] = last.triggered[d]
        /\ last.prevented[c] = last.prevented[d]

C18_Witness ==
  /\ last.op = "keydown"
  /\ mounted[1] /\ mounted[2]
  /\ props[1].keyboardShortcut = ScShiftControlSUpper
  /\ props[2].keyboardShortcut = ScSShiftCtrl
  /\ last.ev.key = KeySUpper
  /\ last.ev.ctrlKey /\ last.ev.shiftKey /\ ~last.ev.altKey /\ ~last.ev.metaKey
  /\ last.triggered[1] = 1
  /\ last.triggered[2] = 1

\* C19: a keydown that matches the shortcut of a control whose button element
\* is gone (buttonRef.current is null) completes without a click: no click() is
\* called on the missing element and no click handler, the component's or the
\* consumer's, runs for that control.
C19_TriggerWithoutElementIsNoOp ==
  last.op = "keydown" =>
    \A c \in Controls :
      ~mounted[c] =>
        /\ last.triggered[c] = 0
        /\ last.handled[c] = 0
        /\ last.consumerClicks[c] = 0

C19_Witness ==
  /\ last.op = "keydown"
  /\ ~mounted[1]
  /\ ListenersOf(1) # {}
  /\ last.prevented[1] = 1
  /\ last.triggered[1] = 0

\* C20: mounting a Button as icon-only without an aria-label completes (the
\* Button is in the tree afterwards) and emits one console warning in a build
\* that is not a production build, none in a production build.
C20_IconOnlyWithoutNameWarns ==
  \A c \in Controls :
    (/\ last.op = "mount" /\ last.ctl = c
     /\ props[c].kind = KindButton
     /\ props[c].iconOnly /\ props[c].ariaLabel = NoLabel) =>
      /\ mounted[c]
      /\ last.warnings = (IF nodeEnv # "production" THEN 1 ELSE 0)

Rendered(c) == last.op \in {"mount", "setprops"} /\ last.ctl = c /\ mounted[c]

\* what Button's state props call for
ExpectedAttributes(p) ==
  [disabled |-> p.disabled \/ p.isLoading,
   ariaDisabled |-> IF p.disabled \/ p.isLoading THEN "true" ELSE Absent,
   ariaBusy |-> IF p.isLoading THEN "true" ELSE Absent,
   ariaPressed |-> p.pressed,
   ariaExpanded |-> p.expanded,
   ariaKeyshortcuts |-> p.keyboardShortcut,
   tabIndex |-> IF p.disabled \/ p.isLoading THEN "-1" ELSE "0"]

StateAttributes == DOMAIN ExpectedAttributes(DefaultProps(KindButton))

\* C21 (as stated): every render of a Button has disabled and aria-disabled
\* exactly when disabled or isLoading, aria-busy exactly when isLoading,
\* tabIndex -1 exactly when disabled or isLoading and 0 otherwise, aria-pressed
\* and aria-expanded equal to the props, aria-keyshortcuts equal to
\* keyboardShortcut.
C21_AttributesMirrorState ==
  \A c \in Controls :
    (Rendered(c) /\ props[c].kind = KindButton) =>
      \A a \in StateAttributes : last.attrs[a] = ExpectedAttributes(props[c])[a]

\* C21 (amended): the same for every one of these attributes that the consumer
\* does not pass itself among the remaining props; one that it passes (tabIndex,
\* aria-disabled, aria-busy, aria-pressed, aria-expanded, aria-keyshortcuts) is
\* rendered with the consumer's value. disabled cannot be passed that way.
C21_AttributesMirrorStateUnlessPassed ==
  \A c \in Controls :
    (Rendered(c) /\ props[c].kind = KindButton) =>
      \A a \in StateAttributes :
        last.attrs[a] = (IF a # "disabled" /\ Passed(props[c].rest, a)
                         THEN props[c].rest[a]
                         ELSE ExpectedAttributes(props[c])[a])

C21_Witness ==
  /\ Rendered(1)
  /\ props[1].kind = KindButton
  /\ props[1].isLoading /\ ~props[1].disabled
  /\ props[1].pressed = "false"
  /\ props[1].rest = NoRest
  /\ props[1].keyboardShortcut = ScCtrlS
  /\ last.attrs.tabIndex = "-1"
  /\ last.attrs.ariaBusy = "true"
  /\ last.attrs.ariaPressed = "false"
  /\ last.attrs.disabled

\* the factor of the diameter on the path the click of the state took
DiameterFactor(p) == IF utilsRev = "clearing" /\ ~CustomPath(p) THEN 2 ELSE 1

C23_RippleTakesHostShape ==
  \A c \in Controls :
    EmitterRan(c) =>
      \A st \in last.styles :
        st.borderRadius =
          (IF last.shape.roundedFull \/ last.shape.borderRadius = "50%" THEN "50%"
           ELSE IF last.shape.borderRadius \in {"", "0px"} THEN Absent
           ELSE last.shape.borderRadius)

\* C24: a Button click whose handler emits uses Button's own ripple path exactly
\* when rippleColor is set or rippleDuration differs from 600; on that path the
\* ripple's background colour is rippleColor (when set) and its removal timer
\* is due after rippleDuration ms; on the default path it is due after 600 ms.
C24_CustomPathByColourOrDuration ==
  \A c \in Controls :
    (EmitterRan(c) /\ props[c].kind = KindButton) =>
      LET p == props[c]
          custom == p.rippleColor # NoColor \/ p.rippleDuration # 600
      IN /\ last.emitter = (IF custom THEN "handleRippleEffect" ELSE "createRippleEffect")
         /\ ~reducedMotion => last.inserted # {}
         /\ \A st \in last.styles :
              /\ st.id \in last.inserted
              /\ custom /\ p.rippleColor # NoColor => st.backgroundColor = p.rippleColor
              /\ ~custom \/ p.rippleColor = NoColor => st.backgroundColor = Absent
              /\ [id |-> st.id, due |-> now + (IF custom THEN p.rippleDuration ELSE 600)]
                   \in timers

C24_Witness ==
  /\ EmitterRan(1)
  /\ props[1].kind = KindButton
  /\ props[1].rippleColor = NoColor
  /\ props[1].rippleDuration = 300
  /\ last.emitter = "handleRippleEffect"
  /\ \E st \in last.styles : [id |-> st.id, due |-> now + 300] \in timers
  /\ \E r \in ripples : r.id \notin last.inserted

\* the last event was a keydown dispatched on control c's focused element
KeyDownOn(c) ==
  /\ last.op = "keydown"
  /\ last.ctl = c
  /\ mounted[c]

\* C25: a Space keydown on a focused control calls the consumer's onKeyDown
\* (when given) and then, when the control is enabled and not loading, calls
\* preventDefault and triggers the control's click exactly once; a disabled or
\* loading control gets no click; a key other than Space gets no click and no
\* preventDefault from the key handler.
C25_SpaceActivatesFocusedControl ==
  \A c \in Controls :
    KeyDownOn(c) =>
      IF ToLowerCase(last.ev.key) = KeySpace
      THEN /\ props[c].onKeyDown => last.consumerKeyDowns[c] = 1
           /\ Eligible(props[c]) => last.spacePrevented = 1 /\ last.spaceClicks[c] = 1
           /\ ~Eligible(props[c]) => last.spaceClicks[c] = 0
      ELSE last.spaceClicks[c] = 0 /\ last.spacePrevented = 0

\* C26: handleKeyboardEvent runs the action registered under the lower-cased
\* event key exactly once, after one preventDefault call exactly when its
\* preventDefault argument is true; with no action under that key it runs no
\* action and does not call preventDefault.
C26_RunsActionOfLowerCasedKey ==
  last.op = "handleKeyboardEvent" =>
    LET k == ToLowerCase(last.ev.key)
        actionCalls == SelectSeq(last.calls, LAMBDA x : x.fn = "action")
        preventCalls == SelectSeq(last.calls, LAMBDA x : x.fn = "preventDefault")
    IN IF k \in last.actions
       THEN /\ actionCalls = <<ActionCall(k)>>
            /\ Len(preventCalls) = (IF last.preventDefault THEN 1 ELSE 0)
            /\ last.preventDefault => last.calls[1] = PreventDefaultCall
       ELSE last.calls = <<>>

C26_Witness ==
  /\ last.op = "handleKeyboardEvent"
  /\ last.ev.key = KeyTab
  /\ last.actions = {KeyTab, ToLowerCase(KeyTab)}
  /\ last.calls = <<PreventDefaultCall, ActionCall(<<"t", "a", "b">>)>>

\* the element is a focusable area in the current state: a field, or the
\* <button> of a mounted control that is not disabled
CanFocus(el) ==
  \/ el \in FieldFocus
  \/ el.ctl # 0 /\ mounted[el.ctl] /\ ~ElementDisabled(props[el.ctl])

\* the last restore emptied a nest of manageFocus calls, all made with an
\* element and restoreFocus true, whose functions were called newest first
NestRestored ==
  /\ last.op = "restore"
  /\ restorers.fns = <<>>
  /\ restorers.lifo
  /\ restorers.plain

C28_FabAlwaysNamed ==
  \A c \in Controls :
    (Rendered(c) /\ props[c].kind = KindFab) =>
      /\ last.attrs.ariaLabel \notin {NoLabel, Absent}
      /\ last.attrs.ariaLabel =
           (IF props[c].ariaLabel # NoLabel THEN props[c].ariaLabel
            ELSE IF props[c].label # NoLabel THEN props[c].label
            ELSE "Action button")

C28_Witness ==
  /\ Rendered(1)
  /\ props[1].kind = KindFab
  /\ props[1].ariaLabel = NoLabel
  /\ props[1].label = NoLabel
  /\ last.attrs.ariaLabel = "Action button"

\* C29: the control's own click handler (ripple emission and the guarded call
\* of the consumer's onClick) runs on every click its element receives, and
\* its own keydown handler (Space handling) on every keydown, whether or not
\* the consumer passes onClick / onKeyDown.
C29_OwnHandlersAlwaysRun ==
  \A c \in Controls :
    /\ (last.op = "click" /\ last.ctl = c /\ mounted[c] /\ ~ElementDisabled(props[c])) =>
         /\ last.handled[c] = 1
         /\ (~props[c].disableAnimation /\ ~reducedMotion) => last.inserted # {}
    /\ (KeyDownOn(c) /\ ToLowerCase(last.ev.key) = KeySpace /\ Eligible(props[c])) =>
         last.spaceClicks[c] = 1

\* C30: whatever activations and timer firings came before, every ripple node
\* that is in a container has its own removal timer pending, and a timer that
\* fires takes out only the ripple it was scheduled for: every other ripple,
\* one inserted by a later activation included, stays.
C30_EveryRippleKeepsItsTimer ==
  [][/\ \A r \in ripples' : \E t \in timers' : t.id = r.id /\ t.due >= now'
     /\ last'.op = "timer" =>
          \A r \in ripples : r.id # last'.timerId => r \in ripples']_vars

C30_Witness ==
  /\ last.op = "timer"
  /\ last.removed = {last.timerId}
  /\ now = 600
  /\ \E r \in ripples, t \in timers : r.live /\ t.id = r.id /\ t.due > now

====
